---- MODULE Spec2Model ----
(***************************************************************************)
(* A model of opencensus_demo/main.py: init() resolves the project id and  *)
(* builds the exporters, main() loops forever creating a tracer, running   *)
(* root() -> foo() -> bar() and sleeping one second.                       *)
(*                                                                         *)
(* Times are whole milliseconds.  Python values that may be None are       *)
(* tagged records: PyNone, PyStr(s).                                       *)
(***************************************************************************)
EXTENDS Integers, Sequences, FiniteSets, TLC

VARIABLES
    ambient,      \* outcome of google.auth.default() in this environment
    env,          \* os.environ's entry for GCP_PROJECT_ID (PyNone: unset)
    pc,           \* position of the single thread of control
    project_id,   \* the module global
    envRead,      \* history: os.environ.get("GCP_PROJECT_ID") was evaluated
    pidWrites,    \* history: number of assignments to project_id
    cte,          \* the StackdriverExporter, PyNone before it is constructed
    cme,          \* the stats exporter, PyNone before it is constructed
    views,        \* views registered with the view manager
    tracer,       \* the tracer of the current iteration
    spans,        \* the spans started in the current iteration, in start order
    log,          \* the events of the current iteration, in order
    now,          \* datetime.datetime.now(), in ms since the process started
    start,        \* root(): start
    end,          \* root(): end
    span_name,    \* root(): span_name
    foo_ms,       \* foo(): ms
    bar_ms,       \* bar(): ms
    samples,      \* the measurement maps recorded so far, in order
    traces,       \* history: the traces closed by tracer.finish(), in order
    iter          \* history: number of completed loop iterations

vars == <<ambient, env, pc, project_id, envRead, pidWrites, cte, cme, views,
          tracer, spans, log, now, start, end, span_name, foo_ms, bar_ms,
          samples, traces, iter>>

initVars == <<project_id, envRead, pidWrites, cte, cme, views>>
iterVars == <<tracer, spans, log, start, end, span_name, foo_ms, bar_ms>>
histVars == <<samples, traces, iter>>

\* ---------------------------------------------------------------- bounds

\* Loop iterations observed before the loop driver is stopped.
MaxIter == 2

\* ------------------------------------------------------- Python values

PyNone == [type |-> "NoneType"]
PyStr(s) == [type |-> "str", val |-> s]
Unbound == [type |-> "unbound"]

\* What an f-string renders for a value: str(None) is "None".
Format(v) == IF v.type = "NoneType" THEN "None" ELSE v.val

\* str() of a float holding a whole number of milliseconds.
StrFloat(ms) == ToString(ms) \o ".0"

\* ------------------------------------------------------------ the inputs

\* google.auth.default(): raises DefaultCredentialsError, or returns
\* (credentials, project) where project may be None.
AmbientOutcomes ==
    { [ok |-> FALSE, project |-> PyNone],
      [ok |-> TRUE,  project |-> PyNone],
      [ok |-> TRUE,  project |-> PyStr("adc-project")] }

\* GCP_PROJECT_ID: unset, set to the empty string, set to a project.
EnvValues == { PyNone, PyStr(""), PyStr("demo") }

\* Identifiers the SDK generates.
TraceIds == { "abc123", "0af765" }
SpanIds == { "def456", "b7ad6b", "00f067" }

\* random.random() * 2 * 1000 and random.random() * 1 * 1000, sampled.
FooWaits == { 300, 1999 }
BarWaits == { 200 }

\* time.sleep(1.0) in main(), in ms.
LoopSleepMs == 1000

\* ------------------------------------------------------------- helpers

Last(s) == s[Len(s)]

\* os.environ.get(name): the value, or None when the variable is unset.
\* It never raises KeyError.
EnvironGet(e) == e

\* Variant of SpanName: the trace id and the span id change places.
SpanNameMixedUp(pid, trace_id, span_id) ==
    "projects/" \o Format(pid) \o "/traces/" \o span_id
                \o "/spans/" \o trace_id

\* f"projects/{project_id}/traces/{trace_id}/spans/{span_id}"
SpanName(pid, trace_id, span_id) ==
    "projects/" \o Format(pid) \o "/traces/" \o trace_id
                \o "/spans/" \o span_id

\* datetime.timedelta of d ms, normalised as CPython does: 0 <= seconds <
\* 86400 and 0 <= microseconds < 1000000, the sign carried by days.
TimeDelta(d) ==
    [ days         |-> (d \div 1000) \div 86400,
      seconds      |-> (d \div 1000) % 86400,
      microseconds |-> (d % 1000) * 1000 ]

\* (end - start).microseconds / 1000.0
ElapsedMs(s, e) == TimeDelta(e - s).microseconds \div 1000

\* Sets of span ids already taken in this iteration.
UsedSpanIds == { spans[i].span_id : i \in 1..Len(spans) }

\* Span.span(name) / tracer.span(name): a started span.
NewSpan(name, id, parent) ==
    [ name |-> name, span_id |-> id, parent |-> parent,
      attributes |-> << >>, ended |-> FALSE ]

\* Index of the span called name in spans (0 when there is none).
SpanIndex(name) ==
    IF \E i \in 1..Len(spans) : spans[i].name = name
    THEN CHOOSE i \in 1..Len(spans) : spans[i].name = name
    ELSE 0

\* ---------------------------------------------------------------- Init

Init ==
    /\ ambient \in AmbientOutcomes
    /\ env \in EnvValues
    /\ pc = "init_auth"
    /\ project_id = Unbound
    /\ envRead = FALSE
    /\ pidWrites = 0
    /\ cte = PyNone
    /\ cme = PyNone
    /\ views = {}
    /\ tracer = PyNone
    /\ spans = << >>
    /\ log = << >>
    /\ now = 0
    /\ start = 0
    /\ end = 0
    /\ span_name = ""
    /\ foo_ms = 0
    /\ bar_ms = 0
    /\ samples = << >>
    /\ traces = << >>
    /\ iter = 0

\* -------------------------------------------------------------- init()

\* Variant of InitDefault: GCP_PROJECT_ID, when set, is consulted first.
InitDefaultEnvFirst ==
    /\ pc = "init_auth"
    /\ IF env.type = "str"
       THEN /\ project_id' = EnvironGet(env)
            /\ envRead' = TRUE
            /\ pidWrites' = pidWrites + 1
            /\ pc' = "init_trace_exporter"
       ELSE IF ambient.ok
       THEN /\ project_id' = ambient.project
            /\ pidWrites' = pidWrites + 1
            /\ pc' = "init_trace_exporter"
            /\ UNCHANGED envRead
       ELSE /\ pc' = "init_env"
            /\ UNCHANGED <<project_id, pidWrites, envRead>>
    /\ UNCHANGED <<ambient, env, cte, cme, views, now>>
    /\ UNCHANGED iterVars
    /\ UNCHANGED histVars

\* Lines 51-53: _, project_id = google.auth.default(), or the except
\* clause is entered.
InitDefault ==
    /\ pc = "init_auth"
    /\ IF ambient.ok
       THEN /\ project_id' = ambient.project
            /\ pidWrites' = pidWrites + 1
            /\ pc' = "init_trace_exporter"
       ELSE /\ pc' = "init_env"
            /\ UNCHANGED <<project_id, pidWrites>>
    /\ UNCHANGED <<ambient, env, envRead, cte, cme, views, now>>
    /\ UNCHANGED iterVars
    /\ UNCHANGED histVars

\* Lines 54-58: project_id = os.environ.get("GCP_PROJECT_ID").  get()
\* returns None for an unset variable, so the KeyError handler that raises
\* ValueError is never entered.
InitEnvFallback ==
    /\ pc = "init_env"
    /\ envRead' = TRUE
    /\ project_id' = EnvironGet(env)
    /\ pidWrites' = pidWrites + 1
    /\ pc' = "init_trace_exporter"
    /\ UNCHANGED <<ambient, env, cte, cme, views, now>>
    /\ UNCHANGED iterVars
    /\ UNCHANGED histVars

\* Lines 60-65: cte = StackdriverExporter(project_id=project_id, ...)
InitTraceExporter ==
    /\ pc = "init_trace_exporter"
    /\ cte' = [type |-> "StackdriverExporter", project_id |-> project_id]
    /\ pc' = "init_stats_exporter"
    /\ UNCHANGED <<ambient, env, project_id, envRead, pidWrites, cme, views, now>>
    /\ UNCHANGED iterVars
    /\ UNCHANGED histVars

\* Lines 67-73: the stats exporter is built and registered, latency_view is
\* registered, cte is returned to main(), which logs "starting loop".
InitStatsExporter ==
    /\ pc = "init_stats_exporter"
    /\ cme' = [type |-> "StatsExporter", project_id |-> project_id]
    /\ views' = views \cup {"task_latency_distribution_exemplar"}
    /\ pc' = "main_loop"
    /\ UNCHANGED <<ambient, env, project_id, envRead, pidWrites, cte, now>>
    /\ UNCHANGED iterVars
    /\ UNCHANGED histVars

\* -------------------------------------------------------------- main()

\* Lines 80-85: tracer = tracer_module.Tracer(exporter=trace_exporter, ...),
\* a new trace whose id the SDK generates.
NewTracer ==
    /\ \E t \in TraceIds :
         tracer' = [trace_id |-> t, exporter |-> cte, finished |-> FALSE]
    /\ spans' = << >>
    /\ log' = << "tracer" >>
    /\ pc' = "root_start"
    /\ UNCHANGED <<ambient, env, start, end, span_name, foo_ms, bar_ms>>
    /\ UNCHANGED initVars

MainTracer ==
    /\ pc = "main_loop"
    /\ iter < MaxIter
    /\ NewTracer
    /\ UNCHANGED now
    /\ UNCHANGED histVars

\* Variant of MainFinish: tracer.finish() is not called.
MainFinishSkipped ==
    /\ pc = "main_finish"
    /\ start' = 0
    /\ end' = 0
    /\ span_name' = ""
    /\ pc' = "main_sleep"
    /\ UNCHANGED <<ambient, env, tracer, spans, log, now, foo_ms, bar_ms>>
    /\ UNCHANGED initVars
    /\ UNCHANGED histVars

\* Line 87: tracer.finish() closes the trace; root()'s frame is gone.
MainFinish ==
    /\ pc = "main_finish"
    /\ tracer' = [tracer EXCEPT !.finished = TRUE]
    /\ traces' = Append(traces, [ trace_id |-> tracer.trace_id,
                                  root_span_id |-> spans[1].span_id ])
    /\ log' = Append(log, "finish")
    /\ start' = 0
    /\ end' = 0
    /\ span_name' = ""
    /\ pc' = "main_sleep"
    /\ UNCHANGED <<ambient, env, spans, now, foo_ms, bar_ms, samples, iter>>
    /\ UNCHANGED initVars

\* Variant of MainSleep: main() leaves the loop after the sleep.
MainSleepReturns ==
    /\ pc = "main_sleep"
    /\ now' = now + LoopSleepMs
    /\ log' = Append(log, "sleep")
    /\ iter' = iter + 1
    /\ pc' = "returned"
    /\ UNCHANGED <<ambient, env, tracer, spans, start, end, span_name,
                   foo_ms, bar_ms, samples, traces>>
    /\ UNCHANGED initVars

\* Lines 88-89: time.sleep(1.0); the iteration is complete.
MainSleep ==
    /\ pc = "main_sleep"
    /\ now' = now + LoopSleepMs
    /\ log' = Append(log, "sleep")
    /\ iter' = iter + 1
    /\ pc' = "main_loop"
    /\ UNCHANGED <<ambient, env, tracer, spans, start, end, span_name,
                   foo_ms, bar_ms, samples, traces>>
    /\ UNCHANGED initVars

\* -------------------------------------------------------------- root()

\* Lines 93-95: a new measurement map; start = datetime.datetime.now().
RootStart ==
    /\ pc = "root_start"
    /\ start' = now
    /\ pc' = "root_span"
    /\ UNCHANGED <<ambient, env, tracer, spans, log, now, end, span_name,
                   foo_ms, bar_ms>>
    /\ UNCHANGED initVars
    /\ UNCHANGED histVars

\* Variant of RootSpanOpen: root() also assigns the global project_id.
RootSpanOpenReassigns ==
    /\ pc = "root_span"
    /\ \E id \in SpanIds :
         /\ spans' = Append(spans, NewSpan("root", id, PyNone))
         /\ span_name' = SpanName(project_id, tracer.trace_id, id)
         /\ project_id' = PyStr(tracer.trace_id)
    /\ pidWrites' = pidWrites + 1
    /\ log' = Append(log, "open root")
    /\ pc' = "foo_span"
    /\ UNCHANGED <<ambient, env, tracer, now, start, end, foo_ms, bar_ms>>
    /\ UNCHANGED <<envRead, cte, cme, views>>
    /\ UNCHANGED histVars

\* Lines 96-101: the root span is opened with an id the SDK generates, and
\* span_name is built from the global project id, the tracer's trace id and
\* the root span's id.
RootSpanOpen ==
    /\ pc = "root_span"
    /\ \E id \in SpanIds :
         /\ spans' = Append(spans, NewSpan("root", id, PyNone))
         /\ span_name' = SpanName(project_id, tracer.trace_id, id)
    /\ log' = Append(log, "open root")
    /\ pc' = "foo_span"
    /\ UNCHANGED <<ambient, env, tracer, now, start, end, foo_ms, bar_ms>>
    /\ UNCHANGED initVars
    /\ UNCHANGED histVars

\* Line 102 -> 103: foo() has returned and the with block is left, which
\* closes the root span.
RootSpanClose ==
    /\ pc = "root_close"
    /\ spans' = [spans EXCEPT ![SpanIndex("root")].ended = TRUE]
    /\ log' = Append(log, "close root")
    /\ pc' = "root_record"
    /\ UNCHANGED <<ambient, env, tracer, now, start, end, span_name,
                   foo_ms, bar_ms>>
    /\ UNCHANGED initVars
    /\ UNCHANGED histVars

\* Lines 108-114: the measurement map with its value and two attachments.
Measurement(ms, name) ==
    [ value |-> ms,
      attachments |->
          ("@type" :> "type.googleapis.com/google.monitoring.v3.SpanContext")
          @@ ("value" :> name) ]

\* Variant of Record: the measurement map is recorded twice.
RecordTwice(recorded, m) == Append(Append(recorded, m), m)

\* mmap.record(): the measurement map reaches the stats recorder.
Record(recorded, m) == Append(recorded, m)

\* Lines 103-114: end = datetime.datetime.now(); ms is taken from the
\* microseconds field of end - start; the sample is recorded.
RootRecord ==
    /\ pc = "root_record"
    /\ end' = now
    /\ samples' = Record(samples, Measurement(ElapsedMs(start, now), span_name))
    /\ log' = Append(log, "record")
    /\ pc' = "main_finish"
    /\ UNCHANGED <<ambient, env, tracer, spans, now, start, span_name,
                   foo_ms, bar_ms, traces, iter>>
    /\ UNCHANGED initVars

\* --------------------------------------------------------------- foo()

\* Variant of BarArgument: foo() hands its own parent on to bar().
BarArgumentIsRoot == spans[SpanIndex("root")]

\* The span root() passes to foo() (line 102) and the span foo() passes to
\* bar() (line 122): in both cases the caller's own span.
FooArgument == spans[SpanIndex("root")]
BarArgument == spans[SpanIndex("child_foo")]

\* span.add_attribute(key, value)
WithAttribute(span, key, value) ==
    [span EXCEPT !.attributes = Append(@, <<key, value>>)]

\* Lines 118-121: child_foo is opened under the span passed in, ms is
\* drawn, and the foo_wait label is attached.
FooSpanOpen ==
    /\ pc = "foo_span"
    /\ \E id \in SpanIds \ UsedSpanIds, ms \in FooWaits :
         /\ foo_ms' = ms
         /\ spans' = Append(spans,
                WithAttribute(NewSpan("child_foo", id, FooArgument.span_id),
                              "foo_wait", StrFloat(ms)))
    /\ log' = log \o << "open child_foo", "label foo_wait" >>
    /\ pc' = "bar_span"
    /\ UNCHANGED <<ambient, env, tracer, now, start, end, span_name, bar_ms>>
    /\ UNCHANGED initVars
    /\ UNCHANGED histVars

\* Lines 123-124: after bar() has returned, time.sleep(ms / 1000).
FooSleep ==
    /\ pc = "foo_sleep"
    /\ now' = now + foo_ms
    /\ log' = Append(log, "sleep foo")
    /\ pc' = "foo_close"
    /\ UNCHANGED <<ambient, env, tracer, spans, start, end, span_name,
                   foo_ms, bar_ms>>
    /\ UNCHANGED initVars
    /\ UNCHANGED histVars

\* Line 124, leaving the with block: child_foo is closed, foo() returns.
FooSpanClose ==
    /\ pc = "foo_close"
    /\ spans' = [spans EXCEPT ![SpanIndex("child_foo")].ended = TRUE]
    /\ log' = Append(log, "close child_foo")
    /\ foo_ms' = 0
    /\ pc' = "root_close"
    /\ UNCHANGED <<ambient, env, tracer, now, start, end, span_name, bar_ms>>
    /\ UNCHANGED initVars
    /\ UNCHANGED histVars

\* --------------------------------------------------------------- bar()

\* Lines 128-131: child_bar is opened under the span passed in, ms is
\* drawn, and the bar_wait label is attached.
BarSpanOpen ==
    /\ pc = "bar_span"
    /\ \E id \in SpanIds \ UsedSpanIds, ms \in BarWaits :
         /\ bar_ms' = ms
         /\ spans' = Append(spans,
                WithAttribute(NewSpan("child_bar", id, BarArgument.span_id),
                              "bar_wait", StrFloat(ms)))
    /\ log' = log \o << "open child_bar", "label bar_wait" >>
    /\ pc' = "bar_sleep"
    /\ UNCHANGED <<ambient, env, tracer, now, start, end, span_name, foo_ms>>
    /\ UNCHANGED initVars
    /\ UNCHANGED histVars

\* Lines 132-133: time.sleep(ms / 1000).
BarSleep ==
    /\ pc = "bar_sleep"
    /\ now' = now + bar_ms
    /\ log' = Append(log, "sleep bar")
    /\ pc' = "bar_close"
    /\ UNCHANGED <<ambient, env, tracer, spans, start, end, span_name,
                   foo_ms, bar_ms>>
    /\ UNCHANGED initVars
    /\ UNCHANGED histVars

\* Line 133, leaving the with block: child_bar is closed, bar() returns
\* into foo().
BarSpanClose ==
    /\ pc = "bar_close"
    /\ spans' = [spans EXCEPT ![SpanIndex("child_bar")].ended = TRUE]
    /\ log' = Append(log, "close child_bar")
    /\ bar_ms' = 0
    /\ pc' = "foo_sleep"
    /\ UNCHANGED <<ambient, env, tracer, now, start, end, span_name, foo_ms>>
    /\ UNCHANGED initVars
    /\ UNCHANGED histVars

\* ------------------------------------------------------ specifications

Next ==
    \/ InitDefault
    \/ InitEnvFallback
    \/ InitTraceExporter
    \/ InitStatsExporter
    \/ MainTracer
    \/ RootStart
    \/ RootSpanOpen
    \/ FooSpanOpen
    \/ BarSpanOpen
    \/ BarSleep
    \/ BarSpanClose
    \/ FooSleep
    \/ FooSpanClose
    \/ RootSpanClose
    \/ RootRecord
    \/ MainFinish
    \/ MainSleep

Spec == Init /\ [][Next]_vars

\* The loop driver past the observed iterations: the histories are started
\* afresh and the loop goes on, as while True does.
MainTracerAgain ==
    /\ pc = "main_loop"
    /\ iter = MaxIter
    /\ NewTracer
    /\ now' = 0
    /\ samples' = << >>
    /\ traces' = << >>
    /\ iter' = 0

NextLive == Next \/ MainTracerAgain

\* Every call and sleep returns, so the single thread always takes its
\* next step.
LiveSpec == Init /\ [][NextLive]_vars /\ WF_vars(NextLive)

\* ------------------------------------------------------------ properties

InitPcs == { "init_auth", "init_env", "init_trace_exporter",
             "init_stats_exporter" }

LoopPcs == { "main_loop", "root_start", "root_span", "foo_span", "bar_span",
             "bar_sleep", "bar_close", "foo_sleep", "foo_close",
             "root_close", "root_record", "main_finish", "main_sleep" }

IsNonEmptyStr(v) == v.type = "str" /\ v.val # ""

IsPrefix(s, t) == Len(s) <= Len(t) /\ \A i \in 1..Len(s) : s[i] = t[i]

\* The trace and root span of the i-th iteration: closed, or the current one.
TraceOf(i) ==
    IF i <= Len(traces)
    THEN traces[i]
    ELSE [ trace_id |-> tracer.trace_id,
           root_span_id |-> spans[SpanIndex("root")].span_id ]

\* C1: with no ambient credentials and GCP_PROJECT_ID unset, init() raises
\* ValueError: control never gets past the project lookup, no exporter is
\* constructed, no view is registered and no tracer is ever created.
C1_MissingProjectAborts ==
    (~ambient.ok /\ env = PyNone) =>
        /\ pc \in { "init_auth", "init_env", "ValueError" }
        /\ cte = PyNone
        /\ cme = PyNone
        /\ views = {}
        /\ tracer = PyNone

\* C2: whenever an exporter has been constructed or a sample recorded, the
\* global project id is a non-empty string.
C2_ProjectIdNonEmpty ==
    (cte # PyNone \/ cme # PyNone \/ samples # << >>) =>
        IsNonEmptyStr(project_id)

\* C3: once the lookup is over, if ambient discovery succeeded the project
\* id is the one it returned and GCP_PROJECT_ID was not read; the variable
\* is read only after discovery failed, and then it is the project id.
C3_FallbackOrder ==
    /\ (ambient.ok /\ pc # "init_auth") =>
           (project_id = ambient.project /\ ~envRead)
    /\ envRead => (~ambient.ok /\ project_id = env)
    /\ (~ambient.ok /\ pc \notin { "init_auth", "init_env" }) => envRead

C3_Witness ==
    /\ ambient.ok
    /\ ambient.project = PyStr("adc-project")
    /\ env = PyStr("demo")
    /\ pc = "main_loop"
    /\ project_id = PyStr("adc-project")
    /\ ~envRead

\* C4: the latency root() has just recorded is the whole time elapsed
\* between start and end, in ms.
C4_LatencyIsTotalElapsed ==
    pc = "main_finish" => Last(samples).value = end - start

\* C5: after n completed iterations exactly n samples are recorded (and one
\* more once the running iteration has recorded its own), each with a
\* non-negative duration.
C5_OneSamplePerIteration ==
    /\ Len(samples) =
           iter + (IF pc \in { "main_finish", "main_sleep" } THEN 1 ELSE 0)
    /\ \A i \in 1..Len(samples) : samples[i].value >= 0

C5_Witness ==
    /\ pc = "main_loop"
    /\ iter = 2
    /\ Len(samples) = 2
    /\ samples[1].value = 199

\* C6: the "value" attachment of the i-th sample is
\* projects/<project id>/traces/<trace id of the i-th tracer>/spans/<id of
\* the i-th root span>.
C6_SpanResourceName ==
    \A i \in 1..Len(samples) :
        samples[i].attachments["value"] =
            "projects/" \o Format(project_id)
                \o "/traces/" \o TraceOf(i).trace_id
                \o "/spans/" \o TraceOf(i).root_span_id

C6_Witness ==
    /\ Len(samples) = 2
    /\ Len(traces) = 2
    /\ traces[1].trace_id # traces[2].trace_id
    /\ samples[2].attachments["value"] = "projects/demo/traces/abc123/spans/def456"

\* The order of main()'s steps in one iteration.
MainOrder == << "tracer", "close root", "record", "finish", "sleep" >>

MainEvents == { MainOrder[i] : i \in 1..Len(MainOrder) }

IsMainEvent(e) == e \in MainEvents

\* C7: in every iteration the tracer is created, then the root span is
\* closed and the sample recorded, then the trace is finished, then main()
\* sleeps; every tracer created before the current one has been finished,
\* and a new iteration starts only from a finished tracer and a completed
\* sleep.
C7_IterationOrder ==
    /\ IsPrefix(SelectSeq(log, IsMainEvent), MainOrder)
    /\ Len(traces) = iter + (IF pc = "main_sleep" THEN 1 ELSE 0)
    /\ (pc = "main_loop" /\ iter > 0) =>
           (tracer.finished /\ SelectSeq(log, IsMainEvent) = MainOrder)
    /\ (pc \in LoopPcs \ { "main_loop", "main_sleep" }) => ~tracer.finished

C7_Witness ==
    /\ pc = "main_loop"
    /\ iter = 2
    /\ tracer.finished
    /\ SelectSeq(log, IsMainEvent) = MainOrder

\* C8: once init() has succeeded control stays in the loop, and every
\* iteration that ends is followed by the start of another one.
C8_LoopForever ==
    /\ [](cme # PyNone => pc \in LoopPcs)
    /\ (pc = "main_loop") ~> (pc = "main_sleep")
    /\ (pc = "main_sleep") ~> (pc = "root_start")

C8_Witness ==
    /\ pc = "root_start"
    /\ iter = 1
    /\ Len(samples) = 1

\* The order of the span events in one iteration.
SpanOrder ==
    << "open root", "open child_foo", "label foo_wait", "open child_bar",
       "label bar_wait", "sleep bar", "close child_bar", "sleep foo",
       "close child_foo", "close root" >>

SpanEvents == { SpanOrder[i] : i \in 1..Len(SpanOrder) }

IsSpanEvent(e) == e \in SpanEvents

SpanCalled(name) == spans[SpanIndex(name)]

\* C9: the spans open in the order root, child_foo, child_bar and close in
\* the reverse order, child_foo under root and child_bar under child_foo;
\* foo and bar each attach their label and sleep while their own span is
\* open, and a span is open only while its parent is.
C9_SpansNested ==
    /\ IsPrefix(SelectSeq(log, IsSpanEvent), SpanOrder)
    /\ \A i \in 1..Len(spans) :
         /\ spans[i].name = <<"root", "child_foo", "child_bar">>[i]
         /\ spans[i].parent =
                IF i = 1 THEN PyNone ELSE spans[i - 1].span_id
         /\ i > 1 => spans[i].attributes[1][1] =
                         <<"", "foo_wait", "bar_wait">>[i]
         /\ (i > 1 /\ ~spans[i].ended) => ~spans[i - 1].ended
    /\ pc = "bar_close" => ~SpanCalled("child_bar").ended
    /\ pc = "foo_close" =>
           (~SpanCalled("child_foo").ended /\ SpanCalled("child_bar").ended)

C9_Witness ==
    /\ pc = "root_record"
    /\ Len(spans) = 3
    /\ \A i \in 1..3 : spans[i].ended
    /\ SelectSeq(log, IsSpanEvent) = SpanOrder
    /\ now - start = 2199

\* C10: project_id is assigned once, by init(); no later step changes it,
\* and the project id in every recorded span name is the one both
\* exporters were constructed with.
C10_ProjectIdFrozen ==
    /\ [](/\ pidWrites <= 1
          /\ pc \in LoopPcs =>
               /\ pidWrites = 1
               /\ cte.project_id = project_id
               /\ cme.project_id = project_id
          /\ \A i \in 1..Len(samples) :
               samples[i].attachments["value"] =
                   SpanName(cte.project_id, TraceOf(i).trace_id,
                            TraceOf(i).root_span_id))
    /\ [][(pc \in LoopPcs) => (project_id' = project_id)]_vars

C10_Witness ==
    /\ pc = "main_loop"
    /\ iter = 2
    /\ pidWrites = 1
    /\ project_id = PyStr("demo")
    /\ Len(samples) = 2

====
